---- MODULE Spec2Model ----
(***************************************************************************)
(* Schelling-point oracle simulation engine (model.py, agents.py,          *)
(* appeals.py).  Real numbers are exact rationals <<numerator,             *)
(* denominator>> in lowest terms; every random draw of the program         *)
(* (random.random, random.gauss) is a nondeterministic choice from a       *)
(* small set of values.                                                    *)
(***************************************************************************)
EXTENDS Integers, Sequences, FiniteSets, TLC

(***************************************************************************)
(* Bounds of the model.                                                    *)
(***************************************************************************)
\* largest panel size given to the constructor in the single-simulator runs
MaxJurors == 3
\* largest number of simulations asked of run_simulations_with_appeals
MaxSims == 2
\* largest max_appeals
MaxAppeals == 2
\* largest panel of an appeal chain whose jurors' beliefs are random
MaxPanel == 3

(***************************************************************************)
(* Exact rational arithmetic standing for the program's float arithmetic.  *)
(***************************************************************************)
Abs(n) == IF n < 0 THEN -n ELSE n

RECURSIVE GCD(_, _)
GCD(a, b) == IF b = 0 THEN a ELSE GCD(b, a % b)

\* Op(x, y) with both arguments evaluated once, before Op is applied
Strict(Op(_, _), x, y) == CHOOSE r \in {Op(a, b) : a \in {x}, b \in {y}} : TRUE

\* n/d in lowest terms with a positive denominator (d # 0)
Reduce(n, d) ==
    LET s == IF d < 0 THEN -1 ELSE 1
    IN  Strict(LAMBDA g, t : <<(s * n) \div g, (s * d) \div g>>,
               GCD(Abs(n), Abs(d)), 0)
Rat(n, d) == Strict(Reduce, n, d)

RInt(n) == <<n, 1>>
Zero == RInt(0)
Half == <<1, 2>>
One == RInt(1)

Sum2(a, b) ==
    Strict(LAMBDA g, t :
             Rat(a[1] * (b[2] \div g) + b[1] * (a[2] \div g), (a[2] \div g) * b[2]),
           GCD(a[2], b[2]), 0)
RAdd(a, b) == Strict(Sum2, a, b)

RNeg(a) == Strict(LAMBDA x, t : <<-x[1], x[2]>>, a, 0)
RSub(a, b) == RAdd(a, RNeg(b))

Product2(a, b) ==
    LET g1 == GCD(Abs(a[1]), b[2])
        g2 == GCD(Abs(b[1]), a[2])
        h1 == IF g1 = 0 THEN 1 ELSE g1
        h2 == IF g2 = 0 THEN 1 ELSE g2
    IN  Rat((a[1] \div h1) * (b[1] \div h2), (a[2] \div h2) * (b[2] \div h1))
RMul(a, b) == Strict(Product2, a, b)

\* a / n for an integer n # 0
RDivInt(a, n) == RMul(a, Rat(1, n))
RLess(a, b) == Strict(LAMBDA x, y : x[1] * y[2] < y[1] * x[2], a, b)
RLeq(a, b) == Strict(LAMBDA x, y : x[1] * y[2] <= y[1] * x[2], a, b)
RAbs(a) == Strict(LAMBDA x, t : <<Abs(x[1]), x[2]>>, a, 0)
RMax(a, b) == Strict(LAMBDA x, y : IF RLess(x, y) THEN y ELSE x, a, b)
RMin(a, b) == Strict(LAMBDA x, y : IF RLess(y, x) THEN y ELSE x, a, b)

RECURSIVE RSum(_)
RSum(s) == IF s = <<>> THEN Zero ELSE RAdd(Head(s), RSum(Tail(s)))

\* np.mean of a non-empty list
Mean(s) == RDivInt(RSum(s), Len(s))

\* list.count
RECURSIVE Count(_, _)
Count(s, x) ==
    IF s = <<>> THEN 0
    ELSE (IF Head(s) = x THEN 1 ELSE 0) + Count(Tail(s), x)

RECURSIVE Choose(_, _)
Choose(n, k) ==
    IF k = 0 THEN 1
    ELSE IF k > n THEN 0
    ELSE Choose(n - 1, k - 1) + Choose(n - 1, k)

RECURSIVE RPow(_, _)
RPow(a, n) == IF n = 0 THEN One ELSE RMul(a, RPow(a, n - 1))

\* scipy.stats.binom.pmf(k, n, q)
BinomPmf(k, n, q) ==
    RMul(RInt(Choose(n, k)), RMul(RPow(q, k), RPow(RSub(One, q), n - k)))

(***************************************************************************)
(* Random draws.                                                           *)
(***************************************************************************)
\* values of random.random(), which lies in [0, 1)
UnitDraws == {Zero, Half}
\* standard-normal deviates z; random.gauss(mu, sigma) is mu + z * sigma
GaussDraws == {-1, 0, 1}

gauss(mu, sigma, z) == RAdd(mu, RMul(RInt(z), sigma))

(***************************************************************************)
(* Payoff mechanisms (module payoff_mechanisms).  vote and outcome are     *)
(* labels, k is the number of OTHER jurors that voted X, N the panel size. *)
(***************************************************************************)
\* redistributed share of a loser's deposit in the Symbiotic mechanism
Beta == Half
\* the outcome the attacker pays for
Target == "Y"

\* number of jurors on the side of the outcome, from k and the own vote
Winners(vote, outcome, k, N) ==
    LET x == k + (IF vote = "X" THEN 1 ELSE 0)
    IN  IF outcome = "X" THEN x ELSE N - x

compute_payoff_basic_no_attack(vote, outcome, p, d) ==
    IF vote = outcome THEN RAdd(d, RMul(p, d)) ELSE Zero

compute_payoff_basic_attack(vote, outcome, p, d, epsilon) ==
    IF vote = outcome THEN RAdd(d, RMul(p, d))
    ELSE IF vote = Target THEN RAdd(d, epsilon)
    ELSE Zero

RedistributiveWinner(vote, outcome, k, N, d) ==
    LET w == Winners(vote, outcome, k, N)
        l == N - w
    IN  IF w <= 0 \/ l <= 0 THEN d
        ELSE RAdd(d, RDivInt(RMul(RInt(l), d), w))

compute_payoff_redistributive_no_attack(vote, outcome, k, N, p, d) ==
    IF vote = outcome THEN RedistributiveWinner(vote, outcome, k, N, d)
    ELSE Zero

compute_payoff_redistributive_attack(vote, outcome, k, N, p, d, epsilon) ==
    IF vote = outcome THEN RedistributiveWinner(vote, outcome, k, N, d)
    ELSE IF vote = Target THEN RAdd(d, epsilon)
    ELSE Zero

SymbioticWinner(vote, outcome, k, N, p, d) ==
    LET w == Winners(vote, outcome, k, N)
        l == N - w
        external_reward == RMul(p, d)
    IN  IF w <= 0 \/ l <= 0 THEN RAdd(d, external_reward)
        ELSE RAdd(RAdd(d, RDivInt(RMul(RInt(l), RMul(Beta, d)), w)),
                  external_reward)

compute_payoff_symbiotic_no_attack(vote, outcome, k, N, p, d) ==
    IF vote = outcome THEN SymbioticWinner(vote, outcome, k, N, p, d)
    ELSE RMul(RSub(One, Beta), d)

compute_payoff_symbiotic_attack(vote, outcome, k, N, p, d, epsilon) ==
    IF vote = outcome THEN SymbioticWinner(vote, outcome, k, N, p, d)
    ELSE IF vote = Target THEN RAdd(d, epsilon)
    ELSE RMul(RSub(One, Beta), d)

(***************************************************************************)
(* Configurations.                                                         *)
(***************************************************************************)
PayoffTypes == {"Basic", "Redistributive", "Symbiotic"}
\* a payoff_type none of the branches recognises
UnknownType == "Quadratic"

\* str.lower on the payoff_type strings the model uses
lower(s) ==
    CASE s = "Basic" -> "basic"
      [] s = "Redistributive" -> "redistributive"
      [] s = "Symbiotic" -> "symbiotic"
      [] s = "Quadratic" -> "quadratic"
      [] OTHER -> s

\* payoff of one juror under the mechanism and attack flag of the simulator
\* (the if/elif chain of simulate_once, also used per k by _expected_payoffs)
MechanismPayoff(m, vote, outcome, k) ==
    IF m.attack
    THEN CASE lower(m.payoff_type) = "basic" ->
                compute_payoff_basic_attack(vote, outcome, m.p, m.d, m.epsilon)
           [] lower(m.payoff_type) = "redistributive" ->
                compute_payoff_redistributive_attack(vote, outcome, k,
                    m.num_jurors, m.p, m.d, m.epsilon)
           [] lower(m.payoff_type) = "symbiotic" ->
                compute_payoff_symbiotic_attack(vote, outcome, k,
                    m.num_jurors, m.p, m.d, m.epsilon)
           [] OTHER -> Zero
    ELSE CASE lower(m.payoff_type) = "basic" ->
                compute_payoff_basic_no_attack(vote, outcome, m.p, m.d)
           [] lower(m.payoff_type) = "redistributive" ->
                compute_payoff_redistributive_no_attack(vote, outcome, k,
                    m.num_jurors, m.p, m.d)
           [] lower(m.payoff_type) = "symbiotic" ->
                compute_payoff_symbiotic_no_attack(vote, outcome, k,
                    m.num_jurors, m.p, m.d)
           [] OTHER -> Zero

(***************************************************************************)
(* Juror (agents.py).                                                      *)
(***************************************************************************)
NoBelief == "None"

\* Juror.__init__
Juror(honesty, rationality, noise) ==
    [honesty |-> honesty, rationality |-> rationality, noise |-> noise,
     belief |-> NoBelief, bribed |-> FALSE]

\* 1 / rel_tol of the math.isclose call
RelTolInv == 1000000000

\* math.isclose(a, b, rel_tol=1e-9): |a-b| <= rel_tol * max(|a|, |b|)
isclose(a, b) ==
    \/ a = b
    \/ LET m == RMax(RAbs(a), RAbs(b))
           diff == RAbs(RSub(a, b))
           ratio == RMul(diff, <<m[2], m[1]>>)
       IN  ratio[1] <= ratio[2] \div RelTolInv

\* the sincere vote returned under the labels of the payoff branch
decide_vote_stale_labels(juror, exp_payoff_A, exp_payoff_B, h, n1, n2, r) ==
    IF juror.bribed THEN "B"
    ELSE IF RLess(h, juror.honesty)
         THEN (IF juror.belief = "X" THEN "A" ELSE "B")
    ELSE LET perceived_A == RAdd(exp_payoff_A, gauss(Zero, juror.noise, n1))
             perceived_B == RAdd(exp_payoff_B, gauss(Zero, juror.noise, n2))
             best0 == IF RLess(perceived_B, perceived_A) THEN "A" ELSE "B"
             best_vote == IF isclose(perceived_A, perceived_B)
                          THEN juror.belief ELSE best0
         IN  IF RLess(r, juror.rationality) THEN best_vote
             ELSE IF best_vote = "B" THEN "A" ELSE "B"

\* Juror.decide_vote; h, n1, n2, r are the values of the random draws the
\* call makes, in program order (a path uses only the draws it reaches)
decide_vote(juror, exp_payoff_A, exp_payoff_B, h, n1, n2, r) ==
    IF juror.bribed THEN "B"
    ELSE IF RLess(h, juror.honesty) THEN juror.belief
    ELSE LET perceived_A == RAdd(exp_payoff_A, gauss(Zero, juror.noise, n1))
             perceived_B == RAdd(exp_payoff_B, gauss(Zero, juror.noise, n2))
             best0 == IF RLess(perceived_B, perceived_A) THEN "A" ELSE "B"
             best_vote == IF isclose(perceived_A, perceived_B)
                          THEN juror.belief ELSE best0
         IN  IF RLess(r, juror.rationality) THEN best_vote
             ELSE IF best_vote = "B" THEN "A" ELSE "B"

(***************************************************************************)
(* OracleModel._expected_payoffs; z is the deviate of the gauss draw.      *)
(***************************************************************************)
majority_needed(N) == N \div 2 + 1

\* winner assumed when the juror votes X and k others vote X
WinnerIfX(k, N) == IF k + 1 >= majority_needed(N) THEN "X" ELSE "Y"
\* winner assumed when the juror votes Y and k others vote X
WinnerIfY(k, N) == IF (N - 1) - k + 1 < majority_needed(N) THEN "X" ELSE "Y"

\* the pair <<payoff_X, payoff_Y>> of one value of k
TermPayoffs(m, bribed, k) ==
    LET N == m.num_jurors
        payoff_X == MechanismPayoff(m, "X", WinnerIfX(k, N), k)
        payoff_Y == MechanismPayoff(m, "Y", WinnerIfY(k, N), k)
        known == lower(m.payoff_type) \in {"basic", "redistributive", "symbiotic"}
    IN  IF m.attack /\ known /\ bribed
        THEN <<payoff_X, RAdd(payoff_X, m.epsilon)>>
        ELSE <<payoff_X, payoff_Y>>

RECURSIVE ExpSum(_, _, _, _, _)
ExpSum(m, bribed, q, k, side) ==
    IF k > m.num_jurors - 1 THEN Zero
    ELSE RAdd(RMul(BinomPmf(k, m.num_jurors - 1, q),
                   TermPayoffs(m, bribed, k)[side]),
              ExpSum(m, bribed, q, k + 1, side))

expected_payoffs(m, bribed, z) ==
    LET q == RMax(Zero, RMin(One, gauss(Half, m.x_guess_noise, z)))
    IN  <<ExpSum(m, bribed, q, 0, 1), ExpSum(m, bribed, q, 0, 2)>>

(***************************************************************************)
(* Constructor arguments.  OracleModel.__init__ stores whatever it is      *)
(* given, so the arguments range over valid and invalid values.            *)
(***************************************************************************)
Config(n, h, r, noise, p, d, e, t, a, x) ==
    [num_jurors |-> n, honesty |-> h, rationality |-> r, noise |-> noise,
     p |-> p, d |-> d, epsilon |-> e, payoff_type |-> t, attack |-> a,
     x_guess_noise |-> x]

Honesties == {Zero, Half, One}
Rationalities == {Half}
Noises == {Zero, One}
Rewards == {Half, One}
Deposits == {RInt(2)}
Bribes == {One}
GuessNoises == {Half}

\* the configurations section 3 of the specification calls valid
IsValid(c) ==
    /\ c.num_jurors >= 1
    /\ RLeq(Zero, c.honesty) /\ RLeq(c.honesty, One)
    /\ RLeq(Zero, c.rationality) /\ RLeq(c.rationality, One)
    /\ RLeq(Zero, c.noise) /\ RLeq(Zero, c.x_guess_noise)
    /\ RLeq(Zero, c.d) /\ RLeq(Zero, c.epsilon)
    /\ c.payoff_type \in PayoffTypes

ValidConfigs ==
    {Config(n, h, r, noise, p, d, e, t, a, x) :
        n \in 1..MaxJurors, h \in Honesties, r \in Rationalities,
        noise \in Noises, p \in Rewards, d \in Deposits, e \in Bribes,
        t \in PayoffTypes, a \in BOOLEAN, x \in GuessNoises}

BaseConfig == Config(2, Half, Half, One, Half, RInt(2), One, "Basic", FALSE, Zero)

\* one field of BaseConfig at a time replaced by an invalid value
InvalidConfigs ==
    {[BaseConfig EXCEPT !.num_jurors = n] : n \in {0, -1}}
    \cup {[BaseConfig EXCEPT !.honesty = <<3, 2>>],
          [BaseConfig EXCEPT !.rationality = <<-1, 2>>],
          [BaseConfig EXCEPT !.noise = RInt(-1)],
          [BaseConfig EXCEPT !.x_guess_noise = <<-1, 2>>],
          [BaseConfig EXCEPT !.d = RInt(-1)],
          [BaseConfig EXCEPT !.epsilon = RInt(-1)]}
    \cup {[BaseConfig EXCEPT !.payoff_type = UnknownType, !.attack = a] :
            a \in BOOLEAN}

ConfigInputs == ValidConfigs \cup InvalidConfigs

\* OracleModel.__init__: the fields, and the jurors list (range(num_jurors))
NewJurors(c) ==
    [i \in 1..(IF c.num_jurors > 0 THEN c.num_jurors ELSE 0) |->
        Juror(c.honesty, c.rationality, c.noise)]

(***************************************************************************)
(* State of one simulator and of the simulate_once call running on it.     *)
(***************************************************************************)
NoModel == [num_jurors |-> 0, payoff_type |-> "None"]
NoResult == [outcome |-> "None"]

VARIABLES
    model,      \* fields of the OracleModel that runs (self.num_jurors .. self.x_guess_noise)
    jurors,     \* its self.jurors: sequence of Juror records
    votes,      \* the local list votes of the running simulate_once call
    result,     \* tuple returned by the last simulate_once call
    pc,         \* position of the control
    caller,     \* who called simulate_once: "none", "attack" or "replay"
    args,       \* arguments of the entry point that runs
                \* (run_simulations_with_appeals, run_simulations, decide_vote)
    init_model, \* the model passed to simulate_appeal_chain
    chain,      \* locals of simulate_appeal_chain
    attacked,   \* result of the attacked round (simulate_round, run_simulations)
    agg,        \* locals of run_simulations_with_appeals or run_simulations
    out         \* the value the entry point returns

roundVars == <<model, jurors, votes, result, pc, caller>>
appealVars == <<args, init_model, chain, attacked, agg, out>>
vars == <<model, jurors, votes, result, pc, caller,
          args, init_model, chain, attacked, agg, out>>

\* OracleModel.__init__
Construct ==
    /\ pc = "new"
    /\ \E c \in ConfigInputs :
        /\ model' = c
        /\ jurors' = NewJurors(c)
    /\ pc' = "idle"
    /\ UNCHANGED <<votes, result, caller>>
    /\ UNCHANGED appealVars

\* "X" if random.random() < self.p else "Y", over the values of the draw
Beliefs(p) == {IF RLess(draw, p) THEN "X" ELSE "Y" : draw \in UnitDraws}

\* the belief drawn, the bribery status of the round before kept
NewRoundJurorKeepBribed(juror, belief) == [juror EXCEPT !.belief = belief]
\* body of the first loop of simulate_once for one juror
NewRoundJuror(juror, belief) ==
    [juror EXCEPT !.bribed = FALSE, !.belief = belief]

\* simulate_once, step 1: reset bribed and draw every juror's belief
AssignBeliefs ==
    /\ pc = "idle"
    /\ \E belief \in [1..Len(jurors) -> Beliefs(model.p)] :
        jurors' = [i \in 1..Len(jurors) |->
                     NewRoundJuror(jurors[i], belief[i])]
    /\ votes' = <<>>
    /\ result' = NoResult
    /\ pc' = "bribe"
    /\ UNCHANGED <<model, caller>>
    /\ UNCHANGED appealVars

\* simulate_once, step 2: under attack every juror is marked bribed
MarkBribed ==
    /\ pc = "bribe"
    /\ jurors' = IF model.attack
                 THEN [i \in 1..Len(jurors) |-> [jurors[i] EXCEPT !.bribed = TRUE]]
                 ELSE jurors
    /\ pc' = "vote"
    /\ UNCHANGED <<model, votes, result, caller>>
    /\ UNCHANGED appealVars

\* simulate_once, step 3, one iteration: juror i's expected payoffs and vote.
\* z is the draw of _expected_payoffs, h, n1, n2, r those of decide_vote; a
\* draw the call does not reach, or whose value its path ignores, is fixed,
\* and the expected payoffs are evaluated only on the path that reads them.
JurorVote ==
    /\ pc = "vote"
    /\ Len(votes) < Len(jurors)
    /\ LET i == Len(votes) + 1
           juror == jurors[i]
       IN  \E h \in (IF juror.bribed THEN {Zero} ELSE UnitDraws) :
             LET by_payoff == ~juror.bribed /\ ~RLess(h, juror.honesty)
                 G == IF by_payoff THEN GaussDraws ELSE {0}
                 U == IF by_payoff THEN UnitDraws ELSE {Zero}
             IN  \E z \in G :
                   \E e \in {IF by_payoff
                             THEN expected_payoffs(model, juror.bribed, z)
                             ELSE <<Zero, Zero>>} :
                       \E n1 \in G, n2 \in G, r \in U :
                         votes' = Append(votes,
                                    decide_vote(juror, e[1], e[2], h, n1, n2, r))
    /\ UNCHANGED <<model, jurors, result, pc, caller>>
    /\ UNCHANGED appealVars

\* simulate_once, steps 4 and 5: the tallies and the winning outcome
votes_for_X(vs) == Count(vs, "X")
votes_for_Y(vs) == Count(vs, "Y")
\* the tie-break dropped: X needs a strict majority
OutcomeStrict(vs) == IF votes_for_X(vs) > votes_for_Y(vs) THEN "X" ELSE "Y"
Outcome(vs) == IF votes_for_X(vs) >= votes_for_Y(vs) THEN "X" ELSE "Y"

\* realized payoff of juror i of the round
RealizedPayoff(m, vs, i) ==
    LET vote == vs[i]
        k == Count(vs, "X") - (IF vote = "X" THEN 1 ELSE 0)
    IN  MechanismPayoff(m, vote, Outcome(vs), k)

\* x_payoffs (side = TRUE) or y_payoffs of the second loop
RECURSIVE SidePayoffs(_, _, _, _)
SidePayoffs(m, vs, i, side) ==
    IF i > Len(vs) THEN <<>>
    ELSE IF (vs[i] = "X") = side
         THEN <<RealizedPayoff(m, vs, i)>> \o SidePayoffs(m, vs, i + 1, side)
         ELSE SidePayoffs(m, vs, i + 1, side)

\* np.mean(l) if l else 0.0
MeanOrZero(l) == IF l # <<>> THEN Mean(l) ELSE Zero

\* the tuple simulate_once returns for the votes list vs
RoundResult(m, vs) ==
    [outcome |-> Outcome(vs),
     votes_X |-> votes_for_X(vs),
     votes_Y |-> votes_for_Y(vs),
     avg_payoff_X |-> MeanOrZero(SidePayoffs(m, vs, 1, TRUE)),
     avg_payoff_Y |-> MeanOrZero(SidePayoffs(m, vs, 1, FALSE))]

\* simulate_once, steps 4 to the return
CountAndReturn ==
    /\ pc = "vote"
    /\ Len(votes) = Len(jurors)
    /\ result' = RoundResult(model, votes)
    /\ votes' = <<>>
    /\ pc' = IF caller = "none" THEN "idle" ELSE "returned"
    /\ UNCHANGED <<model, jurors, caller>>
    /\ UNCHANGED appealVars

NoArgs == [num_simulations |-> 0]
NoChain == [results |-> <<>>, current_jurors |-> 0, params |-> [attack |-> FALSE],
            level |-> 0, draws |-> <<>>, log |-> <<>>]
NoInitModel == [cfg |-> NoModel, jurors |-> <<>>]
NoAgg == [sim_id |-> 0, chains |-> <<>>]
NoOut == [total |-> 0]

Init ==
    /\ model = NoModel
    /\ jurors = <<>>
    /\ votes = <<>>
    /\ result = NoResult
    /\ pc = "new"
    /\ caller = "none"
    /\ args = NoArgs
    /\ init_model = NoInitModel
    /\ chain = NoChain
    /\ attacked = NoResult
    /\ agg = NoAgg
    /\ out = NoOut

Next ==
    \/ Construct
    \/ AssignBeliefs
    \/ MarkBribed
    \/ JurorVote
    \/ CountAndReturn

Spec == Init /\ [][Next]_vars

(***************************************************************************)
(* Appeal chains (appeals.py).                                             *)
(***************************************************************************)
\* an optional value: None is the empty sequence
None == <<>>
Some(v) == <<v>>

\* panel size after the given number of appeals from a panel of n
RECURSIVE PanelAt(_, _)
PanelAt(n, appeals) ==
    IF appeals = 0 THEN n ELSE PanelAt(2 * n + 1, appeals - 1)

AppealConfig(n, p, t, a) ==
    Config(n, One, Half, One, p, RInt(2), One, t, a, Half)

Args(s, ma, c) ==
    [num_simulations |-> s, appeal_prob |-> Half, max_appeals |-> ma,
     config |-> c]

\* arguments with random beliefs (p = 1/2), on panels of at most MaxPanel
RandomBeliefArgs ==
    {a \in {Args(s, ma, AppealConfig(n, Half, t, at)) :
              s \in 1..MaxSims, ma \in 0..MaxAppeals, n \in 1..MaxPanel,
              t \in {"Symbiotic"}, at \in BOOLEAN} :
        PanelAt(a.config.num_jurors, a.max_appeals) <= MaxPanel}

\* arguments with p = 1: every belief is X, chains of every depth
FixedBeliefArgs ==
    {Args(s, ma, AppealConfig(1, One, t, at)) :
        s \in 1..MaxSims, ma \in 0..MaxAppeals,
        t \in {"Basic", "Symbiotic"}, at \in BOOLEAN}

AppealArgs == RandomBeliefArgs \cup FixedBeliefArgs

\* the dict params with the noise taken from the wrong field
ParamsNoiseMixedUp(m) ==
    [honesty |-> m.honesty, rationality |-> m.rationality,
     noise |-> m.x_guess_noise,
     p |-> m.p, d |-> m.d, epsilon |-> m.epsilon,
     payoff_type |-> m.payoff_type, attack |-> m.attack,
     x_guess_noise |-> m.x_guess_noise]

\* the dict params of simulate_appeal_chain
Params(m) ==
    [honesty |-> m.honesty, rationality |-> m.rationality, noise |-> m.noise,
     p |-> m.p, d |-> m.d, epsilon |-> m.epsilon,
     payoff_type |-> m.payoff_type, attack |-> m.attack,
     x_guess_noise |-> m.x_guess_noise]

\* OracleModel(num_jurors=n_jurors, **params)
ModelOf(n_jurors, params) ==
    Config(n_jurors, params.honesty, params.rationality, params.noise,
           params.p, params.d, params.epsilon, params.payoff_type,
           params.attack, params.x_guess_noise)

\* the tuple appended to results for one level
Entry(level, n_jurors, r, vy_no_attack) ==
    [level |-> level, num_jurors |-> n_jurors,
     vx |-> r.votes_X, vy |-> r.votes_Y, vy_no_attack |-> vy_no_attack,
     px |-> r.avg_payoff_X, py |-> r.avg_payoff_Y, outcome |-> r.outcome]

\* what a finished round leaves in the log of the chain (history)
LogEntry == [level |-> chain.level, kind |-> caller,
             num_jurors |-> model.num_jurors, attack |-> model.attack,
             vy |-> result.votes_Y]

\* current_jurors of the next level
NextPanelDoubled(current_jurors) == current_jurors * 2
NextPanel(current_jurors) == current_jurors * 2 + 1

\* run_simulations_with_appeals, loop head: the initial model of simulation
\* sim_id, and the entry of simulate_appeal_chain up to the level-0 call
StartSimulation ==
    /\ pc = "loop"
    /\ agg.sim_id < args.num_simulations
    /\ init_model' = [cfg |-> args.config, jurors |-> NewJurors(args.config)]
    /\ chain' = [results |-> <<>>,
                 current_jurors |-> args.config.num_jurors,
                 params |-> Params(args.config),
                 level |-> 0,
                 draws |-> <<>>,
                 log |-> <<>>]
    /\ pc' = "round"
    /\ UNCHANGED <<model, jurors, votes, result, caller, args, attacked, agg, out>>

\* simulate_round: sim_model = OracleModel(num_jurors=n_jurors, **params)
ConstructSim ==
    /\ pc = "round"
    /\ model' = ModelOf(chain.current_jurors, chain.params)
    /\ jurors' = NewJurors(ModelOf(chain.current_jurors, chain.params))
    /\ caller' = "attack"
    /\ result' = NoResult
    /\ attacked' = NoResult
    /\ pc' = "idle"
    /\ UNCHANGED <<votes, args, init_model, chain, agg, out>>

\* the arguments of the replay simulator: {**params, "attack": False}
ReplayParamsKeepAttack(params) == params
ReplayParams(params) == [params EXCEPT !.attack = FALSE]

\* simulate_round after the first simulate_once: under attack construct the
\* replay simulator, else return with vy_no_attack = None and append
AfterAttackRound ==
    /\ pc = "returned"
    /\ caller = "attack"
    /\ attacked' = result
    /\ IF chain.params["attack"]
       THEN LET noatt == ReplayParams(chain.params) IN
            /\ model' = ModelOf(chain.current_jurors, noatt)
            /\ jurors' = NewJurors(ModelOf(chain.current_jurors, noatt))
            /\ caller' = "replay"
            /\ result' = NoResult
            /\ chain' = [chain EXCEPT !.log = Append(@, LogEntry)]
            /\ pc' = "idle"
       ELSE /\ chain' = [chain EXCEPT
                  !.results = Append(@, Entry(chain.level, chain.current_jurors,
                                              result, None)),
                  !.log = Append(@, LogEntry)]
            /\ pc' = "continue"
            /\ UNCHANGED <<model, jurors, caller, result>>
    /\ UNCHANGED <<votes, args, init_model, agg, out>>

\* simulate_round after the replay: return and append the level's tuple
AfterReplay ==
    /\ pc = "returned"
    /\ caller = "replay"
    /\ chain' = [chain EXCEPT
          !.results = Append(@, Entry(chain.level, chain.current_jurors,
                                      attacked, Some(result.votes_Y))),
          !.log = Append(@, LogEntry)]
    /\ pc' = "continue"
    /\ UNCHANGED <<model, jurors, votes, result, caller, args, init_model,
                   attacked, agg, out>>

\* the while condition of simulate_appeal_chain for the value of its draw
MayContinueOffByOne(draw, appeal_prob, level, max_appeals) ==
    RLess(draw, appeal_prob) /\ level <= max_appeals
MayContinue(draw, appeal_prob, level, max_appeals) ==
    RLess(draw, appeal_prob) /\ level < max_appeals

\* one evaluation of the while condition (the draw is made whatever the
\* level), then the body up to the call of simulate_round, or the return;
\* draws is the history of the draws' successes
ContinueDraw ==
    /\ pc = "continue"
    /\ \E draw \in UnitDraws :
        IF MayContinue(draw, args.appeal_prob, chain.level, args.max_appeals)
        THEN /\ chain' = [chain EXCEPT
                   !.level = @ + 1,
                   !.current_jurors = NextPanel(@),
                   !.draws = Append(@, RLess(draw, args.appeal_prob))]
             /\ pc' = "round"
        ELSE /\ chain' = [chain EXCEPT
                   !.draws = Append(@, RLess(draw, args.appeal_prob))]
             /\ pc' = "fold"
    /\ UNCHANGED <<model, jurors, votes, result, caller, args, init_model,
                   attacked, agg, out>>

(***************************************************************************)
(* run_simulations_with_appeals: the fold over the chains.                 *)
(***************************************************************************)
\* [0]*(max_appeals+1): one entry per level 0..max_appeals
Zeros(max_appeals, zero) == [l \in 0..max_appeals |-> zero]

\* the accumulators before the first simulation; chains is the history of
\* the chains simulate_appeal_chain returned so far
NewAgg(max_appeals) ==
    [sim_id |-> 0,
     chains |-> <<>>,
     appeal_records |-> <<>>,
     delta_y_list |-> <<>>,
     X_votes_no_attack_per_sim |-> <<>>,
     Y_votes_no_attack_per_sim |-> <<>>,
     final_outcomes |-> [X |-> 0, Y |-> 0],
     votes_X_sum |-> Zeros(max_appeals, 0),
     votes_Y_sum |-> Zeros(max_appeals, 0),
     payoff_X_sum |-> Zeros(max_appeals, Zero),
     payoff_Y_sum |-> Zeros(max_appeals, Zero),
     counts_per_level |-> Zeros(max_appeals, 0),
     num_jurors_by_level |-> Zeros(max_appeals, 0)]

\* one iteration of "for step in chain"
FoldStep(a, step) ==
    [a EXCEPT
        !.votes_X_sum[step.level] = @ + step.vx,
        !.votes_Y_sum[step.level] = @ + step.vy,
        !.payoff_X_sum[step.level] = RAdd(@, step.px),
        !.payoff_Y_sum[step.level] = RAdd(@, step.py),
        !.counts_per_level[step.level] = @ + 1,
        !.num_jurors_by_level[step.level] =
            IF @ = 0 THEN step.num_jurors ELSE @]

RECURSIVE FoldSteps(_, _)
FoldSteps(a, steps) ==
    IF steps = <<>> THEN a
    ELSE FoldSteps(FoldStep(a, Head(steps)), Tail(steps))

\* the loop variables after "for step in chain": those of its last iteration
FirstStep(c) == c[1]
LastStep(c) == c[Len(c)]

\* the record appended to appeal_records: the loop variables are those of
\* the last iteration of "for step in chain"
AppealRecord(sim_id, step, attack) ==
    [Simulation |-> sim_id,
     Level |-> step.level,
     NumJurors |-> step.num_jurors,
     X_votes |-> step.vx,
     Y_votes |-> step.vy,
     avg_payoff_X |-> step.px,
     avg_payoff_Y |-> step.py,
     Outcome |-> step.outcome,
     X_votes_no_attack |->
        IF step.vy_no_attack # None
        THEN Some(step.num_jurors - step.vy_no_attack[1]) ELSE None,
     Y_votes_no_attack |-> step.vy_no_attack,
     Delta_Y |->
        IF attack /\ step.vy_no_attack # None
        THEN Some(step.vy - step.vy_no_attack[1]) ELSE None]

\* body of the simulation loop after simulate_appeal_chain returned
FoldChain ==
    /\ pc = "fold"
    /\ LET c == chain.results
           final == c[Len(c)]
           level0 == c[1]
           attack == args.config.attack
           a1 == [agg EXCEPT
                    !.delta_y_list =
                        IF attack /\ final.vy_no_attack # None
                        THEN Append(@, Rat((final.vy - final.vy_no_attack[1]) * 100,
                                           final.num_jurors))
                        ELSE @,
                    !.final_outcomes[IF final.vx >= final.vy THEN "X" ELSE "Y"] =
                        @ + 1]
           a2 == FoldSteps(a1, c)
           a3 == IF level0.vy_no_attack # None
                 THEN [a2 EXCEPT
                         !.X_votes_no_attack_per_sim =
                             Append(@, level0.num_jurors - level0.vy_no_attack[1]),
                         !.Y_votes_no_attack_per_sim =
                             Append(@, level0.vy_no_attack[1])]
                 ELSE a2
       IN  agg' = [a3 EXCEPT
                     !.appeal_records =
                         Append(@, AppealRecord(agg.sim_id, LastStep(c), attack)),
                     !.chains = Append(@, c),
                     !.sim_id = @ + 1]
    /\ pc' = "loop"
    /\ UNCHANGED <<model, jurors, votes, result, caller, args, init_model,
                   chain, attacked, out>>

\* the averages taken over all simulations instead of those that reached
\* the level
RECURSIVE AvgOverAllSims(_, _, _, _)
AvgOverAllSims(sums, counts, lvl, max_appeals) ==
    IF lvl > max_appeals THEN <<>>
    ELSE <<IF counts[lvl] > 0 THEN RDivInt(sums[lvl], counts[0]) ELSE Zero>>
         \o AvgOverAllSims(sums, counts, lvl + 1, max_appeals)

\* the per-level averages: for lvl in range(max_appeals+1)
RECURSIVE AvgByLevel(_, _, _, _)
AvgByLevel(sums, counts, lvl, max_appeals) ==
    IF lvl > max_appeals THEN <<>>
    ELSE <<IF counts[lvl] > 0 THEN RDivInt(sums[lvl], counts[lvl]) ELSE Zero>>
         \o AvgByLevel(sums, counts, lvl + 1, max_appeals)

\* sort key (Simulation, Level)
KeyLeq(r1, r2) ==
    \/ r1.Simulation < r2.Simulation
    \/ r1.Simulation = r2.Simulation /\ r1.Level <= r2.Level

\* list.sort(key=...): a stable insertion sort
RECURSIVE Insert(_, _)
Insert(r, sorted) ==
    IF sorted = <<>> THEN <<r>>
    ELSE IF KeyLeq(sorted[Len(sorted)], r) THEN Append(sorted, r)
    ELSE Append(Insert(r, SubSeq(sorted, 1, Len(sorted) - 1)),
                sorted[Len(sorted)])

RECURSIVE SortRecords(_)
SortRecords(rs) ==
    IF rs = <<>> THEN <<>>
    ELSE Insert(rs[Len(rs)], SortRecords(SubSeq(rs, 1, Len(rs) - 1)))

AsRationals(f) == [l \in DOMAIN f |-> RInt(f[l])]

\* the dict run_simulations_with_appeals returns (the pandas summaries
\* level_counts, payoff_by_level and outcome_distribution are left out)
Output(a, max_appeals) ==
    LET records == SortRecords(a.appeal_records) IN
    [final_outcome_counts |-> a.final_outcomes,
     avg_votes_X_by_level |->
        AvgByLevel(AsRationals(a.votes_X_sum), a.counts_per_level, 0, max_appeals),
     avg_votes_Y_by_level |->
        AvgByLevel(AsRationals(a.votes_Y_sum), a.counts_per_level, 0, max_appeals),
     avg_payoff_X_by_level |->
        AvgByLevel(a.payoff_X_sum, a.counts_per_level, 0, max_appeals),
     avg_payoff_Y_by_level |->
        AvgByLevel(a.payoff_Y_sum, a.counts_per_level, 0, max_appeals),
     appeals_df |-> records,
     history_X |-> [i \in 1..Len(records) |-> records[i].X_votes],
     history_Y |-> [i \in 1..Len(records) |-> records[i].Y_votes],
     avg_payoff_X |-> [i \in 1..Len(records) |-> records[i].avg_payoff_X],
     avg_payoff_Y |-> [i \in 1..Len(records) |-> records[i].avg_payoff_Y],
     attack_success_rate |->
        IF a.delta_y_list # <<>>
        THEN RDivInt(RSum(a.delta_y_list), Len(a.delta_y_list)) ELSE Zero,
     num_jurors_by_level |-> a.num_jurors_by_level,
     X_votes_no_attack_level_0 |-> a.X_votes_no_attack_per_sim,
     Y_votes_no_attack_level_0 |-> a.Y_votes_no_attack_per_sim]

\* after the last simulation: averages, sorting, flattening, return
Finish ==
    /\ pc = "loop"
    /\ agg.sim_id >= args.num_simulations
    /\ out' = Output(agg, args.max_appeals)
    /\ pc' = "done"
    /\ UNCHANGED <<model, jurors, votes, result, caller, args, init_model,
                   chain, attacked, agg>>

InitAppeals ==
    /\ model = NoModel
    /\ jurors = <<>>
    /\ votes = <<>>
    /\ result = NoResult
    /\ caller = "none"
    /\ args \in AppealArgs
    /\ init_model = NoInitModel
    /\ chain = NoChain
    /\ attacked = NoResult
    /\ agg = NewAgg(args.max_appeals)
    /\ out = NoOut
    /\ pc = "loop"

NextAppeals ==
    \/ StartSimulation
    \/ ConstructSim
    \/ AssignBeliefs
    \/ MarkBribed
    \/ JurorVote
    \/ CountAndReturn
    \/ AfterAttackRound
    \/ AfterReplay
    \/ ContinueDraw
    \/ FoldChain
    \/ Finish

SpecAppeals == InitAppeals /\ [][NextAppeals]_vars

\* a run of a single chain
InitChain == InitAppeals /\ args.num_simulations = 1

\* one chain from its call to the return of the aggregator; the sequential
\* program takes its next step whenever it has one
FairAppeals == InitChain /\ [][NextAppeals]_vars /\ WF_vars(NextAppeals)

(***************************************************************************)
(* OracleModel.run_simulations: num_simulations rounds on one simulator,   *)
(* each attacked round paired with a replay on the same simulator.         *)
(***************************************************************************)
\* largest panel of the simulators run_simulations is called on
MaxRunPanel == 2

RunConfig(n, h, t, a) ==
    Config(n, h, Half, One, Half, RInt(2), One, t, a, Half)

\* constructor arguments and num_simulations; the jurors of a panel of more
\* than one are sincere
RunArgs ==
    {a \in {[num_simulations |-> s, config |-> RunConfig(n, h, t, at)] :
              s \in 1..MaxSims, n \in 1..MaxRunPanel, h \in {Half, One},
              t \in {"Basic", "Symbiotic"}, at \in BOOLEAN} :
        a.config.num_jurors = 1 \/ a.config.honesty = One}

\* assignment to an element of a np.uint16 array
uint16(v) == v % 65536

\* np.zeros(num_simulations): indices 0..num_simulations-1
ZeroArray(num_simulations) == [i \in 0..(num_simulations - 1) |-> 0]

\* the locals of run_simulations before the loop; rounds is the history of
\* the simulate_once calls made so far
NewRun(num_simulations, attack) ==
    [i |-> 0,
     rounds |-> <<>>,
     entry_attack |-> attack,
     attack_effect_percent |-> <<>>,
     outcomes |-> [X |-> 0, Y |-> 0],
     votes_X_array |-> ZeroArray(num_simulations),
     votes_Y_array |-> ZeroArray(num_simulations),
     votes_Y_attack_array |-> ZeroArray(num_simulations),
     votes_X_no_attack_array |-> ZeroArray(num_simulations),
     votes_Y_no_attack_array |-> ZeroArray(num_simulations)]

\* what a finished simulate_once call leaves in the history rounds
RoundEntry ==
    [i |-> agg.i, kind |-> caller, attack |-> model.attack,
     bribed |-> {j \in 1..Len(jurors) : jurors[j].bribed},
     outcome |-> result.outcome]

\* OracleModel(...) of the caller of run_simulations
ConstructRun ==
    /\ pc = "run_new"
    /\ model' = args.config
    /\ jurors' = NewJurors(args.config)
    /\ pc' = "run_entry"
    /\ UNCHANGED <<votes, result, caller, args, init_model, chain, attacked,
                   agg, out>>

\* run_simulations up to the loop
RunEnter ==
    /\ pc = "run_entry"
    /\ agg' = NewRun(args.num_simulations, model.attack)
    /\ pc' = "run_loop"
    /\ UNCHANGED <<model, jurors, votes, result, caller, args, init_model,
                   chain, attacked, out>>

\* loop head and the first simulate_once call of iteration i
RunIteration ==
    /\ pc = "run_loop"
    /\ agg.i < args.num_simulations
    /\ caller' = "run"
    /\ pc' = "idle"
    /\ UNCHANGED <<model, jurors, votes, result, args, init_model, chain,
                   attacked, agg, out>>

\* lines 229-234: the tallies of the first round of iteration i
Tally(a, r) ==
    [a EXCEPT
        !.outcomes[r.outcome] = @ + 1,
        !.votes_X_array[a.i] = uint16(r.votes_X),
        !.votes_Y_array[a.i] = uint16(r.votes_Y),
        !.i = @ + 1]

\* the value self.attack has while the second round of an iteration runs
ReplayAttackKept(attack) == attack
ReplayAttack(attack) == FALSE

\* after the first simulate_once: under attack record the Y votes, clear
\* self.attack and call simulate_once again; else tally the round
AfterRunRound ==
    /\ pc = "returned"
    /\ caller = "run"
    /\ attacked' = result
    /\ IF model.attack
       THEN /\ agg' = [agg EXCEPT
                  !.votes_Y_attack_array[agg.i] = uint16(result.votes_Y),
                  !.rounds = Append(@, RoundEntry)]
            /\ model' = [model EXCEPT !.attack = ReplayAttack(@)]
            /\ caller' = "run_replay"
            /\ pc' = "idle"
       ELSE /\ agg' = Tally([agg EXCEPT !.rounds = Append(@, RoundEntry)], result)
            /\ pc' = "run_loop"
            /\ UNCHANGED <<model, caller>>
    /\ UNCHANGED <<jurors, votes, result, args, init_model, chain, out>>

\* (votes_Y - votes_Y_no) / self.num_jurors * 100
Effect(votes_Y, votes_Y_no, num_jurors) ==
    RMul(Rat(votes_Y - votes_Y_no, num_jurors), RInt(100))

\* after the replay: restore self.attack, record the effect and tally the
\* attacked round
AfterRunReplay ==
    /\ pc = "returned"
    /\ caller = "run_replay"
    /\ model' = [model EXCEPT !.attack = TRUE]
    /\ agg' = Tally([agg EXCEPT
                  !.attack_effect_percent =
                      Append(@, Effect(attacked.votes_Y, result.votes_Y,
                                       model.num_jurors)),
                  !.votes_X_no_attack_array[agg.i] = uint16(result.votes_X),
                  !.votes_Y_no_attack_array[agg.i] = uint16(result.votes_Y),
                  !.rounds = Append(@, RoundEntry)],
                attacked)
    /\ pc' = "run_loop"
    /\ UNCHANGED <<jurors, votes, result, caller, args, init_model, chain,
                   attacked, out>>

\* np.mean of a np.uint16 array
MeanOfArray(a, n) == RDivInt(RSum([k \in 1..n |-> RInt(a[k - 1])]), n)

\* the dict run_simulations returns (the float32 payoff histories are left
\* out)
RunResults(m, a, num_simulations) ==
    [total_runs |-> num_simulations,
     outcome_counts |-> a.outcomes,
     attack_success_rate |->
        IF m.attack THEN Mean(a.attack_effect_percent) ELSE None,
     average_votes_X |-> MeanOfArray(a.votes_X_array, num_simulations),
     average_votes_Y |-> MeanOfArray(a.votes_Y_array, num_simulations),
     history_X |-> a.votes_X_array,
     history_Y |-> a.votes_Y_array,
     honesty |-> m.honesty, rationality |-> m.rationality, noise |-> m.noise,
     p |-> m.p, d |-> m.d, epsilon |-> m.epsilon,
     payoff_type |-> m.payoff_type, attack |-> m.attack,
     history_Y_attack |->
        IF m.attack THEN Some(a.votes_Y_attack_array) ELSE None,
     history_X_no_attack |->
        IF m.attack THEN Some(a.votes_X_no_attack_array) ELSE None,
     history_Y_no_attack |->
        IF m.attack THEN Some(a.votes_Y_no_attack_array) ELSE None,
     attack_effect_percent |->
        IF m.attack THEN Some(a.attack_effect_percent) ELSE None]

\* after the last iteration: the summary statistics and the return
RunReturn ==
    /\ pc = "run_loop"
    /\ agg.i >= args.num_simulations
    /\ out' = RunResults(model, agg, args.num_simulations)
    /\ pc' = "run_done"
    /\ UNCHANGED <<model, jurors, votes, result, caller, args, init_model,
                   chain, attacked, agg>>

InitRun ==
    /\ model = NoModel
    /\ jurors = <<>>
    /\ votes = <<>>
    /\ result = NoResult
    /\ caller = "none"
    /\ args \in RunArgs
    /\ init_model = NoInitModel
    /\ chain = NoChain
    /\ attacked = NoResult
    /\ agg = NoAgg
    /\ out = NoOut
    /\ pc = "run_new"

NextRun ==
    \/ ConstructRun
    \/ RunEnter
    \/ RunIteration
    \/ AssignBeliefs
    \/ MarkBribed
    \/ JurorVote
    \/ CountAndReturn
    \/ AfterRunRound
    \/ AfterRunReplay
    \/ RunReturn

SpecRun == InitRun /\ [][NextRun]_vars

(***************************************************************************)
(* Juror.decide_vote called on its own: the juror, the expected payoffs    *)
(* and the values of the draws are the inputs.                             *)
(***************************************************************************)
DecideJurors ==
    {[Juror(h, r, n) EXCEPT !.belief = b, !.bribed = br] :
        h \in {Zero, Half}, r \in Rationalities, n \in Noises,
        b \in {"X", "Y"}, br \in BOOLEAN}

DecidePayoffs == {Zero, One, RInt(2)}

DecideInputs ==
    [juror : DecideJurors, exp_payoff_A : DecidePayoffs,
     exp_payoff_B : DecidePayoffs, h : UnitDraws, n1 : GaussDraws,
     n2 : GaussDraws, r : UnitDraws]

\* one call of decide_vote
Decide ==
    /\ pc = "decide"
    /\ out' = [vote |-> decide_vote(args.juror, args.exp_payoff_A,
                                    args.exp_payoff_B, args.h, args.n1,
                                    args.n2, args.r)]
    /\ pc' = "decided"
    /\ UNCHANGED <<model, jurors, votes, result, caller, args, init_model,
                   chain, attacked, agg>>

InitDecide ==
    /\ model = NoModel
    /\ jurors = <<>>
    /\ votes = <<>>
    /\ result = NoResult
    /\ caller = "none"
    /\ args \in DecideInputs
    /\ init_model = NoInitModel
    /\ chain = NoChain
    /\ attacked = NoResult
    /\ agg = NoAgg
    /\ out = NoOut
    /\ pc = "decide"

NextDecide == Decide

SpecDecide == InitDecide /\ [][NextDecide]_vars

(***************************************************************************)
(* The winner _expected_payoffs assumes for a tally, next to the outcome   *)
(* simulate_once declares for the same tally: N the panel size, k the      *)
(* number of other jurors voting X, vote the juror's own vote.             *)
(***************************************************************************)
\* largest panel size of the comparison
MaxTally == 10

TallyInputs ==
    {t \in [N : 1..MaxTally, k : 0..(MaxTally - 1), vote : {"X", "Y"}] :
        t.k <= t.N - 1}

\* the list votes of a round with x votes for X among N
VotesOfTally(x, N) == [i \in 1..N |-> IF i <= x THEN "X" ELSE "Y"]

\* both winners of one tally
CompareWinners ==
    /\ pc = "tally"
    /\ out' = [hypothetical |->
                  IF args.vote = "X" THEN WinnerIfX(args.k, args.N)
                  ELSE WinnerIfY(args.k, args.N),
               declared |->
                  Outcome(VotesOfTally(args.k + (IF args.vote = "X" THEN 1 ELSE 0),
                                       args.N))]
    /\ pc' = "compared"
    /\ UNCHANGED <<model, jurors, votes, result, caller, args, init_model,
                   chain, attacked, agg>>

InitWinner ==
    /\ model = NoModel
    /\ jurors = <<>>
    /\ votes = <<>>
    /\ result = NoResult
    /\ caller = "none"
    /\ args \in TallyInputs
    /\ init_model = NoInitModel
    /\ chain = NoChain
    /\ attacked = NoResult
    /\ agg = NoAgg
    /\ out = NoOut
    /\ pc = "tally"

NextWinner == CompareWinners

SpecWinner == InitWinner /\ [][NextWinner]_vars

(***************************************************************************)
(* Properties of a round (specification Spec).                             *)
(***************************************************************************)
Returned == result # NoResult
Constructed == model # NoModel

\* C1: the tallies every simulate_once call returns add up to the panel
\* size, votes_X + votes_Y = num_jurors (stated for valid configurations).
C1_TalliesSumToPanel ==
    Returned /\ IsValid(model) => result.votes_X + result.votes_Y = model.num_jurors

\* C2: every vote decide_vote returns is X or Y (valid configurations).
C2_VoteIsXorY ==
    IsValid(model) => \A i \in 1..Len(votes) : votes[i] \in {"X", "Y"}

\* C3: the returned outcome is X exactly when votes_X >= votes_Y, and Y
\* otherwise; a tie gives X.
C3_OutcomeRule ==
    Returned =>
        /\ result.outcome \in {"X", "Y"}
        /\ result.outcome = "X" <=> result.votes_X >= result.votes_Y

\* a round of a panel of at least two that ended in a tie
C3_Witness ==
    /\ Returned
    /\ result.votes_X = result.votes_Y
    /\ result.votes_X >= 1
    /\ result.outcome = "X"

\* C4: a bribed juror's vote is the attacker's target outcome Y (valid
\* configurations).
C4_BribedVotesTarget ==
    IsValid(model) =>
        \A i \in 1..Len(votes) : jurors[i].bribed => votes[i] = Target

\* C8: no simulator with an invalid configuration exists and runs a round.
C8_InvalidRejected ==
    Returned => IsValid(model)

\* C9: a side without votes has the average payoff 0.0 (valid
\* configurations).
C9_EmptySideZero ==
    Returned /\ IsValid(model) =>
        /\ result.votes_X = 0 => result.avg_payoff_X = Zero
        /\ result.votes_Y = 0 => result.avg_payoff_Y = Zero

\* number of jurors whose belief of the round is b
BeliefCount(b) == Cardinality({i \in 1..Len(jurors) : jurors[i].belief = b})

\* C13: with honesty = 1 and attack = false every vote is the juror's belief
\* and votes_X (votes_Y) is the number of jurors believing X (Y); with p = 1
\* in addition votes_X = num_jurors, votes_Y = 0, the outcome is X and
\* avg_payoff_Y = 0.0.
C13_SincereVotes ==
    Constructed /\ model.honesty = One /\ ~model.attack =>
        /\ \A i \in 1..Len(votes) : votes[i] = jurors[i].belief
        /\ Returned =>
            /\ result.votes_X = BeliefCount("X")
            /\ result.votes_Y = BeliefCount("Y")
            /\ model.p = One =>
                /\ result.votes_X = model.num_jurors
                /\ result.votes_Y = 0
                /\ result.outcome = "X"
                /\ result.avg_payoff_Y = Zero

\* a sincere round of three jurors with both beliefs present
C13_Witness ==
    /\ Returned
    /\ model.honesty = One /\ ~model.attack
    /\ model.num_jurors = 3
    /\ BeliefCount("X") = 2 /\ BeliefCount("Y") = 1
    /\ result.votes_X = 2 /\ result.votes_Y = 1

\* C14: on a panel of one, majority_needed is 1, the expected payoffs are
\* the single term k = 0, and the outcome the round returns is the vote of
\* the single juror (valid configurations).
C14_SingleJuror ==
    [][(/\ pc = "vote"
        /\ IsValid(model)
        /\ model.num_jurors = 1
        /\ Len(votes) = 1)
       => /\ majority_needed(model.num_jurors) = 1
          /\ \A z \in GaussDraws :
                expected_payoffs(model, jurors[1].bribed, z) =
                    TermPayoffs(model, jurors[1].bribed, 0)
          /\ result'.outcome = votes[1]]_vars

\* C15: without attack and with the Basic mechanism a juror whose vote is
\* the outcome is paid d + p*d and any other juror 0, so the winning side's
\* average payoff is d + p*d and that of a non-empty losing side is 0 (valid
\* configurations).
C15_BasicPayoffs ==
    IsValid(model) /\ ~model.attack /\ lower(model.payoff_type) = "basic" =>
        LET win == RAdd(model.d, RMul(model.p, model.d)) IN
        /\ pc = "vote" /\ Len(votes) = Len(jurors) =>
              \A i \in 1..Len(votes) :
                  RealizedPayoff(model, votes, i) =
                      IF votes[i] = Outcome(votes) THEN win ELSE Zero
        /\ Returned /\ result.outcome = "X" =>
              /\ result.avg_payoff_X = win
              /\ result.votes_Y > 0 => result.avg_payoff_Y = Zero
        /\ Returned /\ result.outcome = "Y" =>
              /\ result.avg_payoff_Y = win
              /\ result.votes_X > 0 => result.avg_payoff_X = Zero

\* C17: in a round with attack enabled every juror is bribed when the votes
\* are cast, and the round returns votes_Y = num_jurors, votes_X = 0 and the
\* outcome Y (valid configurations).
C17_AttackWinsY ==
    IsValid(model) /\ model.attack =>
        /\ pc = "vote" => \A i \in 1..Len(jurors) : jurors[i].bribed
        /\ Returned =>
            /\ result.votes_Y = model.num_jurors
            /\ result.votes_X = 0
            /\ result.outcome = "Y"

(***************************************************************************)
(* Properties of the appeal chains (specifications SpecAppeals and         *)
(* FairAppeals).                                                           *)
(***************************************************************************)
Min(a, b) == IF a < b THEN a ELSE b

\* C5: level 0 of a chain has the base model's num_jurors and every later
\* level has 2 * (juror count of the level before) + 1 jurors.
C5_JurorScaling ==
    \A i \in 1..Len(chain.results) :
        /\ i = 1 => chain.results[i].num_jurors = init_model.cfg.num_jurors
        /\ i > 1 => chain.results[i].num_jurors =
                        2 * chain.results[i - 1].num_jurors + 1

\* a returned chain of three levels
C5_Witness ==
    /\ pc = "fold"
    /\ Len(chain.results) = 3
    /\ chain.results[3].num_jurors = 7

\* number of successful draws before the first failed one
RECURSIVE LeadingSuccesses(_)
LeadingSuccesses(draws) ==
    IF draws = <<>> \/ ~Head(draws) THEN 0
    ELSE 1 + LeadingSuccesses(Tail(draws))

\* a returned chain has 1 + min(max_appeals, successful draws) levels
ChainLength ==
    pc = "fold" =>
        Len(chain.results) =
            1 + Min(args.max_appeals, LeadingSuccesses(chain.draws))

\* a level beyond 0 exists only if every draw before it succeeded, and no
\* draw is made after a failed one
ChainExtension ==
    /\ \A i \in 2..Len(chain.results) : \A j \in 1..(i - 1) : chain.draws[j]
    /\ \A j \in 1..(Len(chain.draws) - 1) : chain.draws[j]
    /\ Len(chain.results) <= args.max_appeals + 1

\* C6: every chain terminates, with 1 + min(max_appeals, number of
\* consecutive successful continuation draws) levels, hence at most
\* max_appeals + 1; it stops at the first failed draw.
C6_ChainTerminates ==
    /\ [](ChainLength /\ ChainExtension)
    /\ (pc = "round") ~> (pc = "fold")

\* a chain cut short by a failed draw below the cap
C6_Witness ==
    /\ pc = "fold"
    /\ args.max_appeals = 2
    /\ chain.draws = <<TRUE, FALSE>>
    /\ Len(chain.results) = 2

\* the rounds the log holds for level l
LogOf(l) == SelectSeq(chain.log, LAMBDA e : e.level = l)

\* C7: under attack every level's attacked round is followed by exactly one
\* replay on a simulator with the same juror count and attack = false, whose
\* Y-vote count is recorded with the level; without attack no replay is run
\* and the recorded no-attack count is None.
C7_ReplayPairing ==
    \A i \in 1..Len(chain.results) :
        LET e == chain.results[i]
            rounds == LogOf(e.level)
        IN  IF args.config.attack
            THEN /\ Len(rounds) = 2
                 /\ rounds[1].kind = "attack" /\ rounds[1].attack
                 /\ rounds[1].num_jurors = e.num_jurors
                 /\ rounds[1].vy = e.vy
                 /\ rounds[2].kind = "replay" /\ ~rounds[2].attack
                 /\ rounds[2].num_jurors = e.num_jurors
                 /\ e.vy_no_attack = Some(rounds[2].vy)
            ELSE /\ Len(rounds) = 1
                 /\ rounds[1].kind = "attack" /\ ~rounds[1].attack
                 /\ e.vy_no_attack = None

\* an attacked chain of two levels whose replay differs from the attack
C7_Witness ==
    /\ pc = "fold"
    /\ args.config.attack
    /\ Len(chain.results) = 2
    /\ chain.results[2].vy_no_attack # Some(chain.results[2].vy)

\* the field of a chain entry as a rational (vote counts are integers)
FieldOf(e, field) ==
    IF field \in {"vx", "vy"} THEN RInt(e[field]) ELSE e[field]

\* sum of the field of level l over the chains cs that reached level l
RECURSIVE SumAtLevel(_, _, _)
SumAtLevel(cs, l, field) ==
    IF cs = <<>> THEN Zero
    ELSE RAdd(IF Len(Head(cs)) > l THEN FieldOf(Head(cs)[l + 1], field) ELSE Zero,
              SumAtLevel(Tail(cs), l, field))

Reached(cs, l) == Cardinality({i \in 1..Len(cs) : Len(cs[i]) > l})

AverageOK(array, cs, max_appeals, field) ==
    /\ Len(array) = max_appeals + 1
    /\ \A l \in 0..max_appeals :
        array[l + 1] = IF Reached(cs, l) = 0 THEN Zero
                       ELSE RDivInt(SumAtLevel(cs, l, field), Reached(cs, l))

\* C10: each per-level average array has max_appeals + 1 entries; the entry
\* of a level no chain reached is zero, that of a reached level is the sum
\* over the chains that reached it divided by their number.
C10_LevelAverages ==
    pc = "done" =>
        /\ AverageOK(out.avg_votes_X_by_level, agg.chains, args.max_appeals,
                     "vx")
        /\ AverageOK(out.avg_votes_Y_by_level, agg.chains, args.max_appeals,
                     "vy")
        /\ AverageOK(out.avg_payoff_X_by_level, agg.chains, args.max_appeals,
                     "px")
        /\ AverageOK(out.avg_payoff_Y_by_level, agg.chains, args.max_appeals,
                     "py")

\* two chains, one stopped at level 0 and one at level 1, level 2 unreached
C10_Witness ==
    /\ pc = "done"
    /\ args.max_appeals = 2
    /\ Reached(agg.chains, 0) = 2
    /\ Reached(agg.chains, 1) = 1
    /\ Reached(agg.chains, 2) = 0
    /\ out.avg_votes_X_by_level[2] # Zero

(***************************************************************************)
(* Properties of the aggregate results.                                    *)
(***************************************************************************)
\* C11: the attack_success_rate of the dict run_simulations and
\* run_simulations_with_appeals return is null when attack is false and a
\* number when attack is true.
C11_SuccessRateNullUnlessAttack ==
    pc \in {"done", "run_done"} =>
        (out.attack_success_rate = None <=> ~args.config.attack)

\* C16: run_simulations_with_appeals returns one flattened record per
\* simulation, in the order of the simulation index, and the record's Level,
\* NumJurors, vote counts, average payoffs and Outcome are those of the last
\* level of the simulation's chain.
C16_OneRecordPerSimulation ==
    pc = "done" =>
        /\ Len(out.appeals_df) = args.num_simulations
        /\ \A i \in 1..Len(out.appeals_df) :
            LET rec == out.appeals_df[i]
                c == agg.chains[i]
                last == c[Len(c)]
            IN  /\ rec.Simulation = i - 1
                /\ rec.Level = Len(c) - 1
                /\ rec.Level = last.level
                /\ rec.NumJurors = last.num_jurors
                /\ rec.X_votes = last.vx
                /\ rec.Y_votes = last.vy
                /\ rec.avg_payoff_X = last.px
                /\ rec.avg_payoff_Y = last.py
                /\ rec.Outcome = last.outcome
                /\ out.history_X[i] = last.vx
                /\ out.history_Y[i] = last.vy

\* two simulations, the first ended at level 1 and the second at level 0
C16_Witness ==
    /\ pc = "done"
    /\ args.num_simulations = 2
    /\ Len(agg.chains[1]) = 2
    /\ Len(agg.chains[2]) = 1
    /\ out.appeals_df[1].Level = 1
    /\ out.appeals_df[1].NumJurors = 2 * args.config.num_jurors + 1
    /\ out.appeals_df[2].Level = 0

(***************************************************************************)
(* Properties of decide_vote (specification SpecDecide).                   *)
(***************************************************************************)
\* the option of {X, Y} that is not b
OtherOption(b) == IF b = "X" THEN "Y" ELSE "X"

\* C18: a juror that is not bribed and fails the honesty draw votes best if
\* the rationality draw succeeds and the other option of {X, Y} if it
\* fails, where best is the belief if the perceived payoffs are equal and
\* the option with the higher perceived payoff otherwise.
C18_RationalityGate ==
    pc = "decided" /\ ~args.juror.bribed
                   /\ ~RLess(args.h, args.juror.honesty) =>
        LET perceived_X == RAdd(args.exp_payoff_A,
                                gauss(Zero, args.juror.noise, args.n1))
            perceived_Y == RAdd(args.exp_payoff_B,
                                gauss(Zero, args.juror.noise, args.n2))
            best == IF isclose(perceived_X, perceived_Y) THEN args.juror.belief
                    ELSE IF RLess(perceived_Y, perceived_X) THEN "X" ELSE "Y"
        IN  out.vote = IF RLess(args.r, args.juror.rationality) THEN best
                       ELSE OtherOption(best)

(***************************************************************************)
(* Properties of run_simulations (specification SpecRun).                  *)
(***************************************************************************)
\* C19: from construction on, and at every point of run_simulations and of
\* the simulate_once calls it makes, the ten configuration fields of the
\* simulator hold the values given to the constructor.
C19_ConfigImmutable ==
    Constructed => model = args.config

(***************************************************************************)
(* Ownership of the simulators of a chain (specification SpecAppeals).     *)
(***************************************************************************)
\* the control is inside a simulate_once call or at its return
InRound == pc \in {"idle", "bribe", "vote", "returned"}

\* the model passed to simulate_appeal_chain is as constructed
BaseModelUntouched ==
    init_model # NoInitModel =>
        /\ init_model.cfg = args.config
        /\ init_model.jurors = NewJurors(args.config)

\* the simulator that runs has the base configuration but for the level's
\* juror count and, in the replay, attack = false
CarriedConfiguration ==
    InRound =>
        /\ chain.current_jurors =
              PanelAt(init_model.cfg.num_jurors, chain.level)
        /\ model = [init_model.cfg EXCEPT
                      !.num_jurors = chain.current_jurors,
                      !.attack = IF caller = "replay" THEN FALSE ELSE @]

\* a simulate_once call starts on a simulator that never ran a round
FreshSimulator ==
    pc = "idle" /\ pc' = "bribe" => jurors = NewJurors(model)

\* C20: simulate_appeal_chain neither runs a round on nor mutates the model
\* it is given; every round, attacked or replay, runs on a simulator newly
\* constructed for it whose configuration is the base model's except for
\* num_jurors (the level's count) and, for the replay, attack = false.
C20_ChainOwnsSimulators ==
    /\ [](BaseModelUntouched /\ CarriedConfiguration)
    /\ [][FreshSimulator]_vars

\* the replay of level 1 of an attacked chain has cast its votes
C20_Witness ==
    /\ pc = "returned"
    /\ caller = "replay"
    /\ chain.level = 1
    /\ init_model.cfg.attack
    /\ ~model.attack
    /\ model.num_jurors = 2 * init_model.cfg.num_jurors + 1

\* C21: every simulate_once call leaves its first step with no juror
\* bribed, and no juror is bribed while the votes of a round whose attack
\* flag is false are cast, whatever round ran on the simulator before.
C21_BribedResetEachRound ==
    /\ [](pc = "vote" /\ ~model.attack =>
            \A i \in 1..Len(jurors) : ~jurors[i].bribed)
    /\ [][pc = "idle" /\ pc' = "bribe" =>
            \A i \in 1..Len(jurors') : ~jurors'[i].bribed]_vars

\* the votes of a replay are cast on a simulator whose jurors were all
\* bribed in the round before
C21_Witness ==
    /\ pc = "vote"
    /\ caller = "run_replay"
    /\ ~model.attack
    /\ Len(jurors) = 2
    /\ Len(votes) = 1
    /\ agg.rounds # <<>>
    /\ agg.rounds[Len(agg.rounds)].bribed = {1, 2}

\* number of first rounds of an iteration in the history with the outcome o
AttackedOutcomes(rounds, o) ==
    Cardinality({j \in 1..Len(rounds) :
                    rounds[j].kind = "run" /\ rounds[j].outcome = o})

\* C23: called with attack = true, run_simulations runs in each iteration
\* one attacked round and then one round with attack = false; the flag is
\* true again at every iteration boundary and equals its value at entry at
\* the return, where outcome_counts[X] + outcome_counts[Y] = n counts the
\* attacked rounds only.
C23_PairedRounds ==
    pc \in {"run_loop", "run_done"} /\ agg.entry_attack =>
        /\ model.attack
        /\ Len(agg.rounds) = 2 * agg.i
        /\ \A j \in 0..(agg.i - 1) :
            /\ agg.rounds[2 * j + 1] \in
                  [i : {j}, kind : {"run"}, attack : {TRUE},
                   bribed : SUBSET (1..Len(jurors)), outcome : {"X", "Y"}]
            /\ agg.rounds[2 * j + 2] \in
                  [i : {j}, kind : {"run_replay"}, attack : {FALSE},
                   bribed : SUBSET (1..Len(jurors)), outcome : {"X", "Y"}]
        /\ pc = "run_done" =>
            /\ agg.i = args.num_simulations
            /\ model.attack = agg.entry_attack
            /\ out.outcome_counts["X"] + out.outcome_counts["Y"] =
                  args.num_simulations
            /\ out.outcome_counts["X"] = AttackedOutcomes(agg.rounds, "X")
            /\ out.outcome_counts["Y"] = AttackedOutcomes(agg.rounds, "Y")

\* two iterations returned, one of its replays ended with the outcome Y
C23_Witness ==
    /\ pc = "run_done"
    /\ agg.entry_attack
    /\ args.num_simulations = 2
    /\ Len(agg.rounds) = 4
    /\ agg.rounds[2].outcome = "Y"
    /\ out.outcome_counts["X"] + out.outcome_counts["Y"] = 2

(***************************************************************************)
(* The assumed and the declared winner (specification SpecWinner).         *)
(***************************************************************************)
\* C22: for every panel size N, every k in 0..N-1 and either own vote, the
\* winner _expected_payoffs derives from majority_needed is the outcome
\* simulate_once declares for the same tally, ties included.
C22_WinnersAgree ==
    pc = "compared" => out.hypothetical = out.declared

====
